---- MODULE Spec2Model ----
(***************************************************************************)
(* Question workflow engine of shangjizhixu-web: the status state machine  *)
(* of QuestionService, the request handlers of api/v1/questions.py that    *)
(* call it, the Celery tasks process_mineru_ocr / generate_rewrites /      *)
(* regenerate_single_rewrite, and the Markdown text normalizer.            *)
(*                                                                         *)
(* Texts are sequences of symbols.  A symbol is a one-character string     *)
(* ("*", "$", "\n", " ", ...) or an opaque run of ordinary letters         *)
(* ("Q", "FORMULA", ...).  A nullable column is None (SQL NULL) or         *)
(* Some(v).                                                                *)
(***************************************************************************)
EXTENDS Integers, Sequences, FiniteSets, TLC

None == << >>
Some(v) == << v >>

\* Python truthiness of an Optional[str]: neither None nor "".
Truthy(o) == o # None /\ o[1] # << >>

Min(a, b) == IF a < b THEN a ELSE b

(***************************************************************************)
(* Text normalizer: app/utils/markdown_converter.py                        *)
(***************************************************************************)

NL == "\n"
\* The symbol of the backquote character (U+0060), which a TLA+ string cannot hold.
BackQuote == "<backquote>"
WhiteSpace == {" ", "\t", "\r", NL}
Digits == {"0", "1", "2", "3", "4", "5", "6", "7", "8", "9"}

Slice(s, a, b) == IF a > b THEN << >> ELSE SubSeq(s, a, b)

At(s, i) == IF i >= 1 /\ i <= Len(s) THEN s[i] ELSE "<eos>"

\* Index of the first occurrence of symbol c at or after position i; 0 if none.
RECURSIVE FirstAt(_, _, _)
FirstAt(s, i, c) ==
    IF i > Len(s) THEN 0
    ELSE IF s[i] = c THEN i
    ELSE FirstAt(s, i + 1, c)

\* Does the n-fold repetition of c stand at position i?
RECURSIVE RunAt(_, _, _, _)
RunAt(s, i, c, n) ==
    IF n = 0 THEN TRUE
    ELSE At(s, i) = c /\ RunAt(s, i + 1, c, n - 1)

\* Smallest m >= i where the n-fold repetition of c stands and no symbol of
\* stop lies in s[i0..m-1]; 0 if none.  This is the lazy group (.+?) followed
\* by the closing delimiter.
RECURSIVE LazyClose(_, _, _, _, _)
LazyClose(s, i, c, n, stop) ==
    IF i + n - 1 > Len(s) THEN 0
    ELSE IF RunAt(s, i, c, n) THEN i
    ELSE IF s[i] \in stop THEN 0
    ELSE LazyClose(s, i + 1, c, n, stop)

\* A regular-expression match at position i: its length (0: no match) and
\* the text re.sub puts in its place.
NoMatch == [len |-> 0, repl |-> << >>]

\* open{n} (.+?) close{n}, replaced by the group: BOLD, ITALIC, STRIKETHROUGH.
\* Without DOTALL the dot does not match a line break.
\* The match that opens at i with a delimiter of n symbols and closes at m.
Group(s, i, n, m) ==
    IF m = 0 THEN NoMatch ELSE [len |-> m + n - i, repl |-> Slice(s, i + n, m - 1)]

LazyPair(s, i, c, n) ==
    IF ~RunAt(s, i, c, n) \/ At(s, i + n) = NL \/ i + n > Len(s) THEN NoMatch
    ELSE Group(s, i, n, LazyClose(s, i + n + 1, c, n, {NL}))

\* c{n} ([^c]+) c{n}: the formula and inline-code patterns; inner is the group.
DelimitedTo(s, i, c, n, j) ==
    IF j = 0 \/ j = i + n \/ ~RunAt(s, j, c, n) THEN NoMatch ELSE Group(s, i, n, j)

Delimited(s, i, c, n) ==
    IF ~RunAt(s, i, c, n) THEN NoMatch ELSE DelimitedTo(s, i, c, n, FirstAt(s, i + n, c))

\* !\[([^\]]*)\]\([^\)]+\) (image, alt text kept; minAlt = 0) and
\* \[([^\]]+)\]\([^\)]+\) (link, visible text kept; minAlt = 1); b is the
\* position of the opening bracket.
BracketedTarget(s, i, b, j, k) ==
    IF k = 0 \/ k = j + 2 THEN NoMatch
    ELSE [len |-> k + 1 - i, repl |-> Slice(s, b + 1, j - 1)]

BracketedText(s, i, b, minAlt, j) ==
    IF j = 0 \/ j - (b + 1) < minAlt \/ At(s, j + 1) # "(" THEN NoMatch
    ELSE BracketedTarget(s, i, b, j, FirstAt(s, j + 2, ")"))

Bracketed(s, i, b, minAlt) ==
    IF At(s, b) # "[" THEN NoMatch
    ELSE BracketedText(s, i, b, minAlt, FirstAt(s, b + 1, "]"))

\* CODE_BLOCK_PATTERN (three backquotes, the rest of the line, a lazy group, three backquotes) with DOTALL: the fence line is dropped, the inner
\* text is kept.
CodeBlockBody(s, i, k, m) ==
    IF m = 0 THEN NoMatch ELSE [len |-> m + 3 - i, repl |-> Slice(s, k + 1, m - 1)]

CodeBlockFence(s, i, k) ==
    IF k = 0 \/ k + 1 > Len(s) THEN NoMatch
    ELSE CodeBlockBody(s, i, k, LazyClose(s, k + 2, BackQuote, 3, {}))

CodeBlock(s, i) ==
    IF ~RunAt(s, i, BackQuote, 3) THEN NoMatch
    ELSE CodeBlockFence(s, i, FirstAt(s, i + 3, NL))

FirstOf(a, b) == IF a.len > 0 THEN a ELSE b

\* The patterns of MarkdownConverter, matched at position i of s.
Match(p, s, i) ==
    CASE p = "CODE_BLOCK" -> CodeBlock(s, i)
      [] p = "CODE_INLINE" -> Delimited(s, i, BackQuote, 1)
      [] p = "IMAGE" -> IF At(s, i) = "!" THEN Bracketed(s, i, i + 1, 0) ELSE NoMatch
      [] p = "LINK" -> Bracketed(s, i, i, 1)
      [] p = "BOLD" -> FirstOf(LazyPair(s, i, "*", 2), LazyPair(s, i, "_", 2))
      [] p = "ITALIC" -> FirstOf(LazyPair(s, i, "*", 1), LazyPair(s, i, "_", 1))
      [] p = "STRIKETHROUGH" -> LazyPair(s, i, "~", 2)

\* re.sub(pattern, repl, s): leftmost non-overlapping matches, left to right.
RECURSIVE ReSub(_, _, _)
ReSubAt(p, s, i, m) ==
    IF m.len > 0 THEN m.repl \o ReSub(p, s, i + m.len)
    ELSE << s[i] >> \o ReSub(p, s, i + 1)

ReSub(p, s, i) == IF i > Len(s) THEN << >> ELSE ReSubAt(p, s, i, Match(p, s, i))

\* Replace every occurrence of the sequence old by new (str.replace).
RECURSIVE Replace(_, _, _, _)
Replace(s, i, old, new) ==
    IF i > Len(s) THEN << >>
    ELSE IF i + Len(old) - 1 <= Len(s) /\ SubSeq(s, i, i + Len(old) - 1) = old
         THEN new \o Replace(s, i + Len(old), old, new)
    ELSE << s[i] >> \o Replace(s, i + 1, old, new)

\* f"__FORMULA_BLOCK_{n}__" and f"__FORMULA_INLINE_{n}__" (kind is "BLOCK" or
\* "INLINE", n the placeholder counter).
Placeholder(kind, n) ==
    << "_", "_", "FORMULA", "_", kind, "_", ToString(n), "_", "_" >>

\* One re.sub pass of _protect_formulas with its counting callback: the text
\* with placeholders, and the (placeholder, formula) pairs in insertion
\* order; the counter is the number of pairs.
Prepend(head, rest) == [text |-> head \o rest.text, dict |-> rest.dict]

RECURSIVE ProtectPass(_, _, _, _, _)
ProtectAt(s, i, n, kind, dict, m) ==
    IF m.len > 0
    THEN Prepend(Placeholder(kind, Len(dict)),
                 ProtectPass(s, i + m.len, n, kind,
                             Append(dict, << Placeholder(kind, Len(dict)),
                                             Slice(s, i, i + m.len - 1) >>)))
    ELSE Prepend(<< s[i] >>, ProtectPass(s, i + 1, n, kind, dict))

ProtectPass(s, i, n, kind, dict) ==
    IF i > Len(s) THEN [text |-> << >>, dict |-> dict]
    ELSE ProtectAt(s, i, n, kind, dict, Delimited(s, i, "$", n))

\* The block pass, then the inline pass on its result.
ProtectInline(blocks) == ProtectPass(blocks.text, 1, 1, "INLINE", blocks.dict)

protect_formulas(text) == ProtectInline(ProtectPass(text, 1, 2, "BLOCK", << >>))

\* text.split('\n')
RECURSIVE SplitLines(_)
SplitLines(s) ==
    LET k == FirstAt(s, 1, NL)
    IN IF k = 0 THEN << s >>
       ELSE << Slice(s, 1, k - 1) >> \o SplitLines(Slice(s, k + 1, Len(s)))

\* '\n'.join(lines)
RECURSIVE JoinWith(_, _)
JoinWith(lines, sep) ==
    IF Len(lines) = 0 THEN << >>
    ELSE IF Len(lines) = 1 THEN lines[1]
    ELSE lines[1] \o sep \o JoinWith(Tail(lines), sep)

\* Number of leading symbols of s, from position i, that lie in set.
RECURSIVE SpanOf(_, _, _)
SpanOf(s, i, set) ==
    IF i > Len(s) \/ s[i] \notin set THEN 0
    ELSE 1 + SpanOf(s, i + 1, set)

\* re.sub of an anchored pattern ^head\s+: headLen symbols of head (0: the
\* head does not match), then at least one white space, all removed.
DropPrefix(line, headLen) ==
    LET ws == SpanOf(line, headLen + 1, WhiteSpace)
    IN IF headLen = 0 \/ ws = 0 THEN line
       ELSE Slice(line, headLen + ws + 1, Len(line))

\* HEADING_PATTERN ^#{1,6}\s+
HeadingHead(line) ==
    LET h == SpanOf(line, 1, {"#"}) IN IF h >= 1 /\ h <= 6 THEN h ELSE 0

\* BLOCKQUOTE_PATTERN ^>\s+
QuoteHead(line) == IF At(line, 1) = ">" THEN 1 ELSE 0

\* LIST_PATTERN ^[\*\-\+]\s+|^\d+\.\s+
ListHead(line) ==
    LET d == SpanOf(line, 1, Digits)
    IN IF At(line, 1) \in {"*", "-", "+"} /\ At(line, 2) \in WhiteSpace THEN 1
       ELSE IF d >= 1 /\ At(line, d + 1) = "." THEN d + 1
       ELSE 0

\* str.strip()
RECURSIVE RStrip(_)
RStrip(s) ==
    IF Len(s) > 0 /\ s[Len(s)] \in WhiteSpace THEN RStrip(Slice(s, 1, Len(s) - 1))
    ELSE s

Strip(s) == LET k == SpanOf(s, 1, WhiteSpace) IN RStrip(Slice(s, k + 1, Len(s)))

\* HORIZONTAL_RULE_PATTERN ^[\*\-_]{3,}$ on line.strip()
IsHorizontalRule(line) ==
    LET t == Strip(line)
    IN Len(t) >= 3 /\ SpanOf(t, 1, {"*", "-", "_"}) = Len(t)

\* The line-by-line loop of _remove_markdown_formatting.
DropHeading(line) == DropPrefix(line, HeadingHead(line))
DropQuote(line) == DropPrefix(line, QuoteHead(line))
DropList(line) == DropPrefix(line, ListHead(line))
\* The line after the three substitutions, or no line for a horizontal rule.
KeptLine(line) == IF IsHorizontalRule(line) THEN << >> ELSE << line >>

RECURSIVE ProcessLines(_)
ProcessLines(lines) ==
    IF Len(lines) = 0 THEN << >>
    ELSE KeptLine(DropList(DropQuote(DropHeading(lines[1])))) \o ProcessLines(Tail(lines))

\* The substitutions of _remove_markdown_formatting, in the order of the code.
InlinePatterns ==
    << "CODE_BLOCK", "CODE_INLINE", "IMAGE", "LINK", "BOLD", "ITALIC", "STRIKETHROUGH" >>

RECURSIVE ReSubAll(_, _)
ReSubAll(patterns, text) ==
    IF patterns = << >> THEN text
    ELSE ReSubAll(Tail(patterns), ReSub(patterns[1], text, 1))

remove_markdown_formatting(text) ==
    JoinWith(ProcessLines(SplitLines(ReSubAll(InlinePatterns, text))), << NL >>)

\* re.sub(r' +', ' ', text)
RECURSIVE SqueezeSpaces(_, _)
SqueezeSpaces(s, i) ==
    IF i > Len(s) THEN << >>
    ELSE IF s[i] = " " THEN << " " >> \o SqueezeSpaces(s, i + SpanOf(s, i, {" "}))
    ELSE << s[i] >> \o SqueezeSpaces(s, i + 1)

clean_whitespace(text) ==
    SqueezeSpaces(Replace(SqueezeSpaces(text, 1), 1, << NL >>, << " " >>), 1)

\* for placeholder, formula in self.formula_placeholders.items(): replace
RECURSIVE restore_formulas(_, _)
restore_formulas(text, dict) ==
    IF Len(dict) = 0 THEN text
    ELSE restore_formulas(Replace(text, 1, dict[1][1], dict[1][2]), Tail(dict))

\* MarkdownConverter.convert
\* Steps 2 to 5 of convert on the protected text p.
ConvertProtected(p) ==
    Strip(restore_formulas(clean_whitespace(remove_markdown_formatting(p.text)), p.dict))

convert(markdown_text) ==
    IF markdown_text = << >> THEN << >>
    ELSE ConvertProtected(protect_formulas(markdown_text))

markdown_to_required_format(markdown_text) == convert(markdown_text)

(***************************************************************************)
(* The Question row and the requests on it: app/models/question.py,        *)
(* app/services/question_service.py, app/api/v1/questions.py               *)
(***************************************************************************)

\* Bounds of the model.
MaxOps == 2          \* requests handled in one behaviour of the whole system
MaxOcrOps == 4       \* requests handled in one behaviour of the OCR phase
MaxRewriteOps == 7   \* requests handled in one behaviour of the rewrite phase
MaxImages == 2       \* images of the question
MaxLlmOps == 3       \* requests handled in one behaviour of the generation

\* for index in range(1, 6)
NumSlots == 5
Slots == 1..NumSlots

QuestionStatus == {"NEW", "OCR_EDITING", "OCR_REVIEWING", "OCR_APPROVED",
                   "REWRITE_GENERATING", "REWRITE_EDITING", "REWRITE_REVIEWING",
                   "DONE", "ARCHIVED"}
ReviewStatus == {"PENDING", "APPROVED", "CHANGES_REQUESTED"}
UserRole == {"ocr_editor", "ocr_reviewer", "rewrite_editor", "rewrite_reviewer"}

\* A foreign key to users.id; ids start at 1, NoUser is SQL NULL.
NoUser == 0
\* UserService.get_users_by_role(db, role)[0].id, the first user of a role,
\* and another user an administrator may assign instead.
FirstUser(role) ==
    CASE role = "ocr_editor" -> 1
      [] role = "ocr_reviewer" -> 2
      [] role = "rewrite_editor" -> 3
      [] role = "rewrite_reviewer" -> 4
OtherUser == FirstUser("rewrite_reviewer") + 5

\* Sample texts of the requests.
MdQ == << "*", "*", "Q", "*", "*" >>     \* a Markdown draft question
MdA == << "#", " ", "A" >>               \* a Markdown draft answer
Rule == << "-", "-", "-" >>              \* a draft that is only a horizontal rule
FinQ == << "Q", "2" >>                   \* final text typed by a reviewer
FinA == << "A", "2" >>

VARIABLES
    q,        \* the Question row as committed in the database
    users,    \* the roles that have at least one user
    now,      \* the clock (datetime.utcnow), advanced by every request
    limit,    \* the number of requests handled in the behaviour
    queue,    \* the Celery tasks enqueued with .delay() and not yet started
    ocr,      \* the running process_mineru_ocr task
    gen,      \* the running generate_rewrites task
    regen,    \* the running regenerate_single_rewrite task
    handlers, \* the requests being handled, each with the ORM object it loaded
    last      \* the last request or task that ended, and how

vars == << q, users, now, limit, queue, ocr, gen, regen, handlers, last >>

EmptySlot ==
    [draft_question |-> None, draft_answer |-> None,
     question |-> None, answer |-> None,
     edit_comment |-> None, review_comment |-> None,
     review_status |-> "PENDING"]

\* QuestionService.create and the column defaults of the model.  The
\* updated_at column, which every mutation sets to the clock, is left out.
NewQuestion(images, editor) ==
    [status |-> "NEW", ocr_progress |-> 0, rewrite_progress |-> 0,
     original_images |-> images,
     ocr_raw_question |-> None, ocr_raw_answer |-> None,
     draft_original_question |-> None, draft_original_answer |-> None,
     original_question |-> None, original_answer |-> None,
     original_review_status |-> "PENDING", original_review_comment |-> None,
     slot |-> [i \in Slots |-> EmptySlot],
     ocr_editor_id |-> editor, ocr_reviewer_id |-> NoUser,
     rewrite_editor_id |-> NoUser, rewrite_reviewer_id |-> NoUser,
     ocr_completed_at |-> None, rewrite_completed_at |-> None]

Idle == [pc |-> "idle"]

\* What the last request or task returned: the HTTP outcome ("ok", "400") or
\* the task's result message; resp is the provider response that decided it.
EndedWith(op, index, result, resp) ==
    [op |-> op, index |-> index, result |-> result, resp |-> resp]
Ended(op, index, result) == EndedWith(op, index, result, << >>)

\* The queue holds one entry per pending task: its name and argument.
Task(name, index) == << name, index >>
Enqueue(t) == queue' = Append(queue, t)

\* create_question: the row is created, the first OCR editor (if any) is
\* assigned, and process_mineru_ocr is enqueued.
Created(requests) ==
    /\ limit = requests
    /\ users \in {{}, UserRole}
    /\ \E n \in 0..MaxImages :
          q = NewQuestion([k \in 1..n |-> k],
                          IF "ocr_editor" \in users THEN FirstUser("ocr_editor")
                          ELSE NoUser)
    /\ now = 0
    /\ queue = << Task("process_mineru_ocr", 0) >>
    /\ ocr = Idle /\ gen = Idle /\ regen = Idle
    /\ handlers = << >>
    /\ last = Ended("create_question", 0, "ok")

Init == Created(MaxOps)

\* A request is handled: the clock advances.
Request == now < limit /\ now' = now + 1 /\ UNCHANGED limit
TasksUnchanged == UNCHANGED << ocr, gen, regen, handlers >>

\* HTTP 400 raised before the service is called.
Rejected(op, index) ==
    /\ Request
    /\ last' = Ended(op, index, "400")
    /\ UNCHANGED << q, users, queue >>
    /\ TasksUnchanged

\* db.commit() of a request handler: the row is written.
Committed(op, index, row) ==
    /\ Request
    /\ q' = row
    /\ last' = Ended(op, index, "ok")
    /\ UNCHANGED users
    /\ TasksUnchanged

\* ---- OCR phase ----

\* QuestionService.update_ocr_draft
update_ocr_draft(row, draft_question, draft_answer) ==
    LET r1 == IF draft_question # None
              THEN [row EXCEPT !.draft_original_question = draft_question] ELSE row
        r2 == IF draft_answer # None
              THEN [r1 EXCEPT !.draft_original_answer = draft_answer] ELSE r1
    IN IF r2.status = "NEW" THEN [r2 EXCEPT !.status = "OCR_EDITING"] ELSE r2

\* PUT /{question_id}/ocr/draft
UpdateOcrDraft(draft_question, draft_answer) ==
    /\ Committed("update_ocr_draft", 0, update_ocr_draft(q, draft_question, draft_answer))
    /\ UNCHANGED queue

\* Auto-assignment: the first user of the role, when there is one and the
\* reference is unassigned.
AnyUserOfRole(role, current) == role \in users
Assignable(role, current) == role \in users /\ current = NoUser

\* QuestionService.submit_ocr_edit
submit_ocr_edit(row) ==
    LET r1 == IF Truthy(row.draft_original_question)
              THEN [row EXCEPT !.original_question =
                        Some(markdown_to_required_format(row.draft_original_question[1]))]
              ELSE row
        r2 == IF Truthy(r1.draft_original_answer)
              THEN [r1 EXCEPT !.original_answer =
                        Some(markdown_to_required_format(r1.draft_original_answer[1]))]
              ELSE r1
        r3 == [r2 EXCEPT !.status = "OCR_REVIEWING", !.ocr_progress = 50]
    IN IF Assignable("ocr_reviewer", r3.ocr_reviewer_id)
       THEN [r3 EXCEPT !.ocr_reviewer_id = FirstUser("ocr_reviewer")]
       ELSE r3

\* A faulty validation: one of the two drafts is enough.
OcrDraftStarted(row) ==
    Truthy(row.draft_original_question) \/ Truthy(row.draft_original_answer)

\* The validation of POST /{question_id}/ocr/submit
OcrDraftComplete(row) ==
    Truthy(row.draft_original_question) /\ Truthy(row.draft_original_answer)

\* POST /{question_id}/ocr/submit
SubmitOcrEdit ==
    /\ IF ~OcrDraftComplete(q) THEN Rejected("submit_ocr_edit", 0)
       ELSE Committed("submit_ocr_edit", 0, submit_ocr_edit(q)) /\ UNCHANGED queue

\* QuestionService.submit_ocr_review
submit_ocr_review(row, t, review_status, review_comment, final_question, final_answer) ==
    LET r1 == [row EXCEPT !.original_review_status = review_status,
                          !.original_review_comment = review_comment]
        r2 == IF Truthy(final_question)
              THEN [r1 EXCEPT !.original_question = final_question] ELSE r1
        r3 == IF Truthy(final_answer)
              THEN [r2 EXCEPT !.original_answer = final_answer] ELSE r2
    IN CASE review_status = "APPROVED" ->
              LET r4 == [r3 EXCEPT !.status = "OCR_APPROVED", !.ocr_progress = 100,
                                   !.ocr_completed_at = Some(t)]
              IN IF Assignable("rewrite_editor", r4.rewrite_editor_id)
                 THEN [r4 EXCEPT !.rewrite_editor_id = FirstUser("rewrite_editor"),
                                 !.status = "REWRITE_EDITING"]
                 ELSE r4
         [] review_status = "CHANGES_REQUESTED" -> [r3 EXCEPT !.status = "OCR_EDITING"]
         [] OTHER -> r3

\* POST /{question_id}/ocr/review
SubmitOcrReview(review_status, review_comment, final_question, final_answer) ==
    IF q.status # "OCR_REVIEWING" THEN Rejected("submit_ocr_review", 0)
    ELSE /\ Committed("submit_ocr_review", 0,
                      submit_ocr_review(q, now, review_status, review_comment,
                                        final_question, final_answer))
         /\ IF review_status = "APPROVED"
            THEN Enqueue(Task("generate_rewrites", 0))
            ELSE UNCHANGED queue

\* ---- Rewrite phase ----

\* if index < 1 or index > 5
ValidIndex(index) == ~(index < 1 \/ index > NumSlots)

\* QuestionService.update_rewrite_draft, for a valid index
update_rewrite_draft(row, index, draft_question, draft_answer, edit_comment) ==
    LET s1 == IF draft_question # None
              THEN [row.slot[index] EXCEPT !.draft_question = draft_question]
              ELSE row.slot[index]
        s2 == IF draft_answer # None
              THEN [s1 EXCEPT !.draft_answer = draft_answer] ELSE s1
        s3 == IF edit_comment # None
              THEN [s2 EXCEPT !.edit_comment = edit_comment] ELSE s2
        r1 == [row EXCEPT !.slot[index] = s3]
    IN IF r1.status = "REWRITE_GENERATING"
       THEN [r1 EXCEPT !.status = "REWRITE_EDITING"] ELSE r1

\* PUT /{question_id}/rewrite/{index}
UpdateRewriteDraft(index, draft_question, draft_answer, edit_comment) ==
    IF ~ValidIndex(index) THEN Rejected("update_rewrite_draft", index)
    ELSE /\ Committed("update_rewrite_draft", index,
                      update_rewrite_draft(q, index, draft_question, draft_answer,
                                           edit_comment))
         /\ UNCHANGED queue

\* QuestionService._count_completed_rewrite_pairs
count_completed_rewrite_pairs(row) ==
    Cardinality({i \in Slots : Truthy(row.slot[i].question) /\ Truthy(row.slot[i].answer)})

\* The conversion of one slot's drafts into its final text.
NormalizeSlot(sl) ==
    LET s1 == IF Truthy(sl.draft_question)
              THEN [sl EXCEPT !.question =
                        Some(markdown_to_required_format(sl.draft_question[1]))]
              ELSE sl
    IN IF Truthy(s1.draft_answer)
       THEN [s1 EXCEPT !.answer = Some(markdown_to_required_format(s1.draft_answer[1]))]
       ELSE s1

\* min(completed_pairs * 20, 100)
ProgressOf(row) == Min(count_completed_rewrite_pairs(row) * 20, 100)

\* A faulty submit: the status is forced whether or not a reviewer is assigned.
SubmitSlotForcingReview(row, index) ==
    LET r1 == [row EXCEPT !.slot[index] = NormalizeSlot(row.slot[index])]
        r2 == [r1 EXCEPT !.rewrite_progress = ProgressOf(r1)]
        r3 == IF Assignable("rewrite_reviewer", r2.rewrite_reviewer_id)
              THEN [r2 EXCEPT !.rewrite_reviewer_id = FirstUser("rewrite_reviewer")]
              ELSE r2
    IN [r3 EXCEPT !.status = "REWRITE_REVIEWING"]

\* QuestionService.submit_rewrite_edit, for a valid index
submit_rewrite_edit(row, index) ==
    LET r1 == [row EXCEPT !.slot[index] = NormalizeSlot(row.slot[index])]
        r2 == [r1 EXCEPT !.rewrite_progress = ProgressOf(r1)]
    IN IF Assignable("rewrite_reviewer", r2.rewrite_reviewer_id)
       THEN [r2 EXCEPT !.rewrite_reviewer_id = FirstUser("rewrite_reviewer"),
                       !.status = "REWRITE_REVIEWING"]
       ELSE r2

\* The validation of POST /{question_id}/rewrite/{index}/submit
SlotDraftComplete(row, index) ==
    Truthy(row.slot[index].draft_question) /\ Truthy(row.slot[index].draft_answer)

\* POST /{question_id}/rewrite/{index}/submit
SubmitRewriteEdit(index) ==
    IF ~ValidIndex(index) \/ ~SlotDraftComplete(q, index)
    THEN Rejected("submit_rewrite_edit", index)
    ELSE /\ Committed("submit_rewrite_edit", index, submit_rewrite_edit(q, index))
         /\ UNCHANGED queue

\* A faulty submit-all: the review verdicts of the slots are kept.
SubmitAllKeepingVerdicts(row) ==
    LET r1 == [row EXCEPT !.slot = [i \in Slots |-> NormalizeSlot(row.slot[i])]]
        r2 == [r1 EXCEPT !.rewrite_progress = ProgressOf(r1)]
        r3 == IF Assignable("rewrite_reviewer", r2.rewrite_reviewer_id)
              THEN [r2 EXCEPT !.rewrite_reviewer_id = FirstUser("rewrite_reviewer")]
              ELSE r2
    IN [r3 EXCEPT !.status = "REWRITE_REVIEWING"]

\* QuestionService.submit_all_rewrite_edits
submit_all_rewrite_edits(row) ==
    LET r1 == [row EXCEPT !.slot = [i \in Slots |->
                    [NormalizeSlot(row.slot[i]) EXCEPT !.review_status = "PENDING",
                                                      !.review_comment = None]]]
        r2 == [r1 EXCEPT !.rewrite_progress = ProgressOf(r1)]
        r3 == IF Assignable("rewrite_reviewer", r2.rewrite_reviewer_id)
              THEN [r2 EXCEPT !.rewrite_reviewer_id = FirstUser("rewrite_reviewer")]
              ELSE r2
    IN [r3 EXCEPT !.status = "REWRITE_REVIEWING"]

\* The validation of POST /{question_id}/rewrite/submit-all
HasContent(row) == \E i \in Slots : SlotDraftComplete(row, i)

\* POST /{question_id}/rewrite/submit-all
SubmitAllRewriteEdits ==
    IF ~HasContent(q) THEN Rejected("submit_all_rewrite_edits", 0)
    ELSE /\ Committed("submit_all_rewrite_edits", 0, submit_all_rewrite_edits(q))
         /\ UNCHANGED queue

\* A faulty scan: range(1, 5) leaves the fifth slot out.
ChangesRequestedInFirstFour(row) ==
    \E i \in 1..(NumSlots - 1) : row.slot[i].review_status = "CHANGES_REQUESTED"

\* The scan of the five review statuses in submit_rewrite_review.
HasChangesRequested(row) == \E i \in Slots : row.slot[i].review_status = "CHANGES_REQUESTED"
AllApproved(row) == \A i \in Slots : row.slot[i].review_status = "APPROVED"

\* The status the scan decides on.
AggregateStatus(row) ==
    IF HasChangesRequested(row) THEN "REWRITE_EDITING"
    ELSE IF AllApproved(row) THEN "DONE"
    ELSE "REWRITE_REVIEWING"

\* QuestionService.submit_rewrite_review, for a valid index
submit_rewrite_review(row, t, index, review_status, review_comment, final_question, final_answer) ==
    LET s1 == [row.slot[index] EXCEPT !.review_status = review_status]
        s2 == IF Truthy(review_comment)
              THEN [s1 EXCEPT !.review_comment = review_comment] ELSE s1
        s3 == IF Truthy(final_question)
              THEN [s2 EXCEPT !.question = final_question] ELSE s2
        s4 == IF Truthy(final_answer)
              THEN [s3 EXCEPT !.answer = final_answer] ELSE s3
        r1 == [row EXCEPT !.slot[index] = s4]
    IN CASE AggregateStatus(r1) = "REWRITE_EDITING" ->
              [r1 EXCEPT !.status = "REWRITE_EDITING"]
         [] AggregateStatus(r1) = "DONE" ->
              [r1 EXCEPT !.status = "DONE", !.rewrite_progress = 100,
                         !.rewrite_completed_at = Some(t)]
         [] OTHER -> [r1 EXCEPT !.status = "REWRITE_REVIEWING"]

\* POST /{question_id}/rewrite/{index}/review
SubmitRewriteReview(index, review_status, review_comment, final_question, final_answer) ==
    IF ~ValidIndex(index) THEN Rejected("submit_rewrite_review", index)
    ELSE /\ Committed("submit_rewrite_review", index,
                      submit_rewrite_review(q, now, index, review_status, review_comment,
                                            final_question, final_answer))
         /\ UNCHANGED queue

\* A faulty handler: the index is not validated before the task is enqueued.
RegenerateRewriteUnchecked(index) ==
    IF q.status \notin {"REWRITE_EDITING", "REWRITE_REVIEWING"}
    THEN Rejected("regenerate_rewrite", index)
    ELSE /\ Request
         /\ Enqueue(Task("regenerate_single_rewrite", index))
         /\ last' = Ended("regenerate_rewrite", index, "ok")
         /\ UNCHANGED << q, users >>
         /\ TasksUnchanged

\* POST /{question_id}/rewrite/{index}/regenerate
RegenerateRewrite(index) ==
    IF ~ValidIndex(index) \/ q.status \notin {"REWRITE_EDITING", "REWRITE_REVIEWING"}
    THEN Rejected("regenerate_rewrite", index)
    ELSE /\ Request
         /\ Enqueue(Task("regenerate_single_rewrite", index))
         /\ last' = Ended("regenerate_rewrite", index, "ok")
         /\ UNCHANGED << q, users >>
         /\ TasksUnchanged

\* POST /{question_id}/ocr/trigger
TriggerOcr ==
    IF q.original_images = << >> THEN Rejected("trigger_ocr", 0)
    ELSE /\ Request
         /\ Enqueue(Task("process_mineru_ocr", 0))
         /\ last' = Ended("trigger_ocr", 0, "ok")
         /\ UNCHANGED << q, users >>
         /\ TasksUnchanged

\* QuestionService.assign_users
assign_users(row, ocr_editor_id, ocr_reviewer_id, rewrite_editor_id, rewrite_reviewer_id) ==
    [row EXCEPT
       !.ocr_editor_id = IF ocr_editor_id # None THEN ocr_editor_id[1] ELSE @,
       !.ocr_reviewer_id = IF ocr_reviewer_id # None THEN ocr_reviewer_id[1] ELSE @,
       !.rewrite_editor_id = IF rewrite_editor_id # None THEN rewrite_editor_id[1] ELSE @,
       !.rewrite_reviewer_id = IF rewrite_reviewer_id # None THEN rewrite_reviewer_id[1] ELSE @]

\* PUT /{question_id}/assign (administrator)
AssignQuestion(a, b, c, d) ==
    /\ Committed("assign_question", 0, assign_users(q, a, b, c, d))
    /\ UNCHANGED queue

(***************************************************************************)
(* Celery tasks.  A task works on its own ORM object (mem), loaded when    *)
(* the task starts and reloaded by every db.refresh; db.commit writes the  *)
(* columns whose value in the object differs from the loaded one.          *)
(***************************************************************************)

\* The UPDATE that db.commit() issues for an object loaded as "loaded" and
\* now holding "current", applied to the committed row "db".
FlushSlot(loaded, current, db) ==
    [c \in DOMAIN db |-> IF current[c] # loaded[c] THEN current[c] ELSE db[c]]

\* A faulty commit: every column of the object is written, changed or not.
FlushWhole(loaded, current, db) == current

Flush(loaded, current, db) ==
    [c \in DOMAIN db |->
        IF c = "slot"
        THEN [i \in Slots |-> FlushSlot(loaded.slot[i], current.slot[i], db.slot[i])]
        ELSE IF current[c] # loaded[c] THEN current[c] ELSE db[c]]

\* ---- Requests handled at the same time ----
\* A handler awaits the database between get_by_id and db.commit, so another
\* handler may run in between; each works on the object its own session
\* loaded, and its commit writes the columns it changed.

\* Fewer requests than the budget have been taken up.
Admitted == now + Len(handlers) < limit

\* POST /{question_id}/rewrite/{index}/review up to get_by_id.
ReviewLoad(index, review_status) ==
    /\ Admitted /\ ValidIndex(index)
    /\ handlers' = Append(handlers, [op |-> "submit_rewrite_review", index |-> index,
                                     review_status |-> review_status, mem |-> q])
    /\ UNCHANGED << q, users, now, limit, queue, ocr, gen, regen, last >>

\* POST /{question_id}/rewrite/{index}/submit up to the validation of the drafts.
SubmitLoad(index) ==
    /\ Admitted /\ ValidIndex(index) /\ SlotDraftComplete(q, index)
    /\ handlers' = Append(handlers, [op |-> "submit_rewrite_edit", index |-> index,
                                     review_status |-> "PENDING", mem |-> q])
    /\ UNCHANGED << q, users, now, limit, queue, ocr, gen, regen, last >>

\* What the service leaves in the handler's object.
Handled(h, t) ==
    IF h.op = "submit_rewrite_review"
    THEN submit_rewrite_review(h.mem, t, h.index, h.review_status, None, None, None)
    ELSE submit_rewrite_edit(h.mem, h.index)

\* The service call of handler k and its db.commit().
HandlerCommit(k) ==
    /\ k \in 1..Len(handlers)
    /\ q' = Flush(handlers[k].mem, Handled(handlers[k], now), q)
    /\ handlers' = SubSeq(handlers, 1, k - 1) \o SubSeq(handlers, k + 1, Len(handlers))
    /\ now' = now + 1
    /\ last' = Ended(handlers[k].op, handlers[k].index, "ok")
    /\ UNCHANGED << users, limit, queue, ocr, gen, regen >>

\* Position k of the queue holds a task of this name.
Pending(k, name) == k \in 1..Len(queue) /\ queue[k][1] = name
Dequeue(k) == queue' = SubSeq(queue, 1, k - 1) \o SubSeq(queue, k + 1, Len(queue))

HumanUnchanged == UNCHANGED << users, now, limit, handlers >>

\* ---- process_mineru_ocr: app/tasks/ocr_tasks.py ----

\* The placeholders of process_mineru_ocr; each Chinese phrase is one symbol,
\* written in English.
PlaceholderQuestion == << "#", " ", "TO-BE-ENTERED-MANUALLY", NL, "ENTER-THE-QUESTION-FROM-THE-IMAGES" >>
PlaceholderAnswer == << "#", " ", "TO-BE-ENTERED-MANUALLY", NL, "ENTER-THE-ANSWER-FROM-THE-IMAGES" >>
AnswerToComplete == << "#", " ", "TO-BE-COMPLETED", NL, "COMPLETE-THE-ANSWER" >>

\* A faulty save: the result reaches the raw columns only, not the drafts.
SaveRawOnly(row, ocr_question, ocr_answer) ==
    [row EXCEPT !.ocr_raw_question = Some(ocr_question),
                !.ocr_raw_answer = Some(ocr_answer)]

\* QuestionService.save_ocr_result on the task's object
save_ocr_result(row, ocr_question, ocr_answer) ==
    LET r1 == [row EXCEPT !.ocr_raw_question = Some(ocr_question),
                          !.ocr_raw_answer = Some(ocr_answer),
                          !.draft_original_question = Some(ocr_question),
                          !.draft_original_answer = Some(ocr_answer)]
    IN IF r1.status = "NEW" THEN [r1 EXCEPT !.status = "OCR_EDITING"] ELSE r1

\* The task starts: it loads the question, returns at once when there are no
\* images, and otherwise commits status OCR_EDITING.
OcrBegin ==
    /\ ocr.pc = "idle"
    /\ \E k \in 1..Len(queue) : Pending(k, "process_mineru_ocr") /\ Dequeue(k)
    /\ IF q.original_images = << >>
       THEN /\ last' = Ended("process_mineru_ocr", 0, "No images to process")
            /\ UNCHANGED << q, ocr >>
       ELSE LET current == [q EXCEPT !.status = "OCR_EDITING"]
            IN /\ q' = Flush(q, current, q)
               /\ ocr' = [pc |-> "started", mem |-> current, pre |-> q, t0 |-> now]
               /\ UNCHANGED last
    /\ UNCHANGED << gen, regen >>
    /\ HumanUnchanged

\* The task ends with a result and no further write.
OcrReturn(result, resp) ==
    /\ ocr' = Idle
    /\ last' = EndedWith("process_mineru_ocr", 0, result, resp)
    /\ UNCHANGED << q, queue, gen, regen >>
    /\ HumanUnchanged

\* The messages the task returns with "success": True.
OcrSuccess == {"Placeholder created (MinerU not configured)",
               "OCR processing completed successfully"}

\* save_ocr_result, then the task ends.
OcrSave(ocr_question, ocr_answer, result, resp) ==
    /\ q' = Flush(ocr.mem, save_ocr_result(ocr.mem, ocr_question, ocr_answer), q)
    /\ ocr' = Idle
    /\ last' = EndedWith("process_mineru_ocr", 0, result, resp)
    /\ UNCHANGED << queue, gen, regen >>
    /\ HumanUnchanged

\* _get_mineru_config and _submit_mineru_task_with_upload.  configured: the
\* endpoint and the credential are both set; submitted: every image was
\* fetched, the batch request answered code 0 and every upload succeeded.
OcrSubmit(configured, submitted) ==
    /\ ocr.pc = "started"
    /\ IF ~configured
       THEN OcrSave(PlaceholderQuestion, PlaceholderAnswer,
                    "Placeholder created (MinerU not configured)", << >>)
       ELSE IF ~submitted
       THEN OcrReturn("Failed to submit MinerU task", << >>)
       ELSE /\ ocr' = [pc |-> "polling", mem |-> ocr.mem, pre |-> ocr.pre,
                        t0 |-> ocr.t0, elapsed |-> 0]
            /\ UNCHANGED << q, queue, gen, regen, last >>
            /\ HumanUnchanged

\* is_batch = len(image_urls) > 1
IsBatch(row) == Len(row.original_images) > 1

\* The text document of the bundle of file k.
Doc(k) == << "D", ToString(k) >>
\* "\n\n---\n\n"
Separator == << NL, NL, "-", "-", "-", NL, NL >>

\* One entry of data.extract_result: the file, its state, and what its
\* full_zip_url yields: "md" (an archive with a Markdown document), "nomd"
\* (an archive without one), "nourl" (no full_zip_url), "error" (download or
\* archive error).
FileStates == {"waiting-file", "pending", "running", "converting", "done", "failed"}
Bundles == {"md", "nomd", "nourl", "error"}
FileResult(k, state, bundle) == [file |-> k, state |-> state, bundle |-> bundle]

AnyFailed(extract_result) == \E k \in 1..Len(extract_result) : extract_result[k].state = "failed"
AllDone(extract_result) == \A k \in 1..Len(extract_result) : extract_result[k].state = "done"

\* A faulty extraction: a bundle without a Markdown document is skipped, only
\* a missing or unreadable bundle counts as failed.
UnreadableFiles(extract_result) ==
    {k \in 1..Len(extract_result) : extract_result[k].bundle \in {"nourl", "error"}}

\* _extract_markdown_from_results: the documents in list order, or failure.
FailedFiles(extract_result) == {k \in 1..Len(extract_result) : extract_result[k].bundle # "md"}
AllMarkdown(extract_result) == [k \in 1..Len(extract_result) |-> Doc(extract_result[k].file)]
CombinedMarkdown(extract_result) == JoinWith(AllMarkdown(extract_result), Separator)

\* Steps 3 and 4 of process_mineru_ocr on the result _poll_mineru_task returned.
OcrExtractAndSave(extract_result) ==
    IF extract_result = << >>
    THEN OcrReturn("Error: No extract_result in MinerU response", extract_result)
    ELSE IF FailedFiles(extract_result) # {}
    THEN OcrReturn("Error: some files failed", extract_result)
    ELSE LET content == [question |-> CombinedMarkdown(extract_result), answer |-> << >>]
         IN OcrSave(content.question,
                    IF content.answer # << >> THEN content.answer ELSE AnswerToComplete,
                    "OCR processing completed successfully", extract_result)

\* poll_interval = 5, and the max_wait_time=600 process_mineru_ocr passes.
poll_interval == 5
max_wait_time == 600

\* A faulty check: the loop runs one interval past the maximum wait.
TimedOutLate(elapsed) == elapsed > max_wait_time + poll_interval

\* if time.time() - start_time > max_wait_time, with elapsed the time since
\* start_time at the top of the iteration
TimedOut(elapsed) == elapsed > max_wait_time

\* What process_mineru_ocr reports when _poll_mineru_task returned None, which
\* it does whatever the cause: a timeout, a failed file, an error code.
PollFailure(cause) == "MinerU task failed or timeout"

\* await asyncio.sleep(poll_interval) and the next iteration of the loop,
\* after a request that took the time "took".
OcrPollAgain(took) ==
    /\ ocr' = [ocr EXCEPT !.elapsed = @ + took + poll_interval]
    /\ UNCHANGED << q, queue, gen, regen, last >>
    /\ HumanUnchanged

\* One poll of a batch (is_batch): code is the "code" field of the response,
\* extract_result the list in its data.
OcrPollBatch(code, extract_result, took) ==
    /\ ocr.pc = "polling" /\ IsBatch(ocr.mem) /\ ~TimedOut(ocr.elapsed)
    /\ IF code # 0 THEN OcrReturn(PollFailure("code"), extract_result)
       ELSE IF extract_result = << >>
       THEN OcrPollAgain(took)
       ELSE IF AnyFailed(extract_result)
       THEN OcrReturn(PollFailure("failed"), extract_result)
       ELSE IF AllDone(extract_result) THEN OcrExtractAndSave(extract_result)
       ELSE OcrPollAgain(took)

\* One poll of a single task (not is_batch): the data of the response carries
\* a state; it is returned whole when the state is done, and extract_result
\* is what result.get("extract_result", []) then finds in it.
OcrPollSingle(code, state, extract_result, took) ==
    /\ ocr.pc = "polling" /\ ~IsBatch(ocr.mem) /\ ~TimedOut(ocr.elapsed)
    /\ IF code # 0 THEN OcrReturn(PollFailure("code"), << >>)
       ELSE IF state = "done" THEN OcrExtractAndSave(extract_result)
       ELSE IF state = "failed" THEN OcrReturn(PollFailure("failed"), << >>)
       ELSE OcrPollAgain(took)

\* except httpx.HTTPError: the request failed (network error, timeout, or an
\* error status raised by raise_for_status); the loop sleeps and goes on.
OcrPollError(took) ==
    /\ ocr.pc = "polling" /\ ~TimedOut(ocr.elapsed)
    /\ OcrPollAgain(took)

\* The loop finds the maximum wait exceeded and returns None.
OcrPollTimeout ==
    /\ ocr.pc = "polling" /\ TimedOut(ocr.elapsed)
    /\ OcrReturn(PollFailure("timeout"), << >>)

\* ---- generate_rewrites, regenerate_single_rewrite: app/tasks/llm_tasks.py ----

\* The words of the two section headings the parser looks for, one symbol each.
QuestionWord == "TIMU"
AnswerWord == "DAAN"

\* Position of the first occurrence of the sequence sep in s at or after i; 0 if none.
RECURSIVE Find(_, _, _)
Find(s, i, sep) ==
    IF i + Len(sep) - 1 > Len(s) THEN 0
    ELSE IF SubSeq(s, i, i + Len(sep) - 1) = sep THEN i
    ELSE Find(s, i + 1, sep)

\* response.split(sep)
RECURSIVE Split(_, _)
Split(s, sep) ==
    LET k == Find(s, 1, sep)
    IN IF k = 0 THEN << s >>
       ELSE << Slice(s, 1, k - 1) >> \o Split(Slice(s, k + Len(sep), Len(s)), sep)

\* The loop of _parse_llm_response over the parts, from part k on.
RECURSIVE ParseParts(_, _, _)
ParseParts(parts, k, found) ==
    IF k > Len(parts) THEN found
    ELSE LET part == Strip(parts[k])
             body == Strip(Tail(part))
         IN IF At(part, 1) = QuestionWord
            THEN ParseParts(parts, k + 1, [found EXCEPT !.question = Some(body)])
            ELSE IF At(part, 1) = AnswerWord
            THEN ParseParts(parts, k + 1, [found EXCEPT !.answer = Some(body)])
            ELSE ParseParts(parts, k + 1, found)

\* _parse_llm_response
parse_llm_response(response) ==
    ParseParts(Split(response, << "#", "#" >>), 1, [question |-> None, answer |-> None])

\* The placeholders of generate_rewrites and regenerate_single_rewrite.
ParseFailedPlaceholder == << "#", " ", "GENERATION-FAILED", NL, "PLEASE-EDIT-MANUALLY" >>
ApiFailedPlaceholder == << "#", " ", "API-CALL-FAILED", NL, "PLEASE-EDIT-MANUALLY" >>
RawResponsePrefix == << "[", "LLM-RAW-RESPONSE", " ", "-", " ", "EXTRACT-MANUALLY", "]", NL, NL >>
CopyAnswerManually == << "[", "COPY-THE-ANSWER-FROM-THE-LEFT", "]" >>

\* What _call_llm_api may return for version i: None (not configured, HTTP or
\* network error, malformed body, empty content), a response with the two
\* sections, or a response without them.
WellFormedResponse(i) ==
    << "#", "#", " ", QuestionWord, NL, "G", ToString(i), NL, NL,
       "#", "#", " ", AnswerWord, NL, "H", ToString(i) >>
FreeTextResponse(i) == << "G", ToString(i), " ", "H", ToString(i) >>
\* A response whose answer section is empty.
HalfResponse(i) ==
    << "#", "#", " ", QuestionWord, NL, "G", ToString(i), NL, NL, "#", "#", " ", AnswerWord, NL >>
LlmResponses(i) ==
    {None, Some(WellFormedResponse(i)), Some(FreeTextResponse(i)), Some(HalfResponse(i))}

\* if not question.original_question or not question.original_answer
OriginalMissing(row) == ~Truthy(row.original_question) \/ ~Truthy(row.original_answer)

\* The task starts: it loads the question, checks the canonical text and
\* commits status REWRITE_GENERATING.
GenBegin ==
    /\ gen.pc = "idle"
    /\ \E k \in 1..Len(queue) : Pending(k, "generate_rewrites") /\ Dequeue(k)
    /\ IF OriginalMissing(q)
       THEN /\ last' = Ended("generate_rewrites", 0, "Original question or answer is missing")
            /\ UNCHANGED << q, gen >>
       ELSE LET current == [q EXCEPT !.status = "REWRITE_GENERATING"]
            IN /\ q' = Flush(q, current, q)
               /\ gen' = [pc |-> "slots", i |-> 1, mem |-> current, t0 |-> now]
               /\ UNCHANGED last
    /\ UNCHANGED << ocr, regen >>
    /\ HumanUnchanged

\* What one iteration of the loop of generate_rewrites stores for a response.
GeneratedDraft(response) ==
    IF Truthy(response)
    THEN LET parsed == parse_llm_response(response[1])
         IN IF Truthy(parsed.question) /\ Truthy(parsed.answer)
            THEN [question |-> parsed.question[1], answer |-> parsed.answer[1]]
            ELSE [question |-> ParseFailedPlaceholder, answer |-> ParseFailedPlaceholder]
    ELSE [question |-> ApiFailedPlaceholder, answer |-> ApiFailedPlaceholder]

\* One iteration of the loop: the LLM call for version gen.i, then
\* update_rewrite_draft on the task's object, commit and refresh.
GenSlot(response) ==
    /\ gen.pc = "slots"
    /\ LET d == GeneratedDraft(response)
           current == update_rewrite_draft(gen.mem, gen.i, Some(d.question),
                                           Some(d.answer), None)
       IN /\ q' = Flush(gen.mem, current, q)
          /\ gen' = IF gen.i = NumSlots THEN [gen EXCEPT !.pc = "end", !.mem = q']
                    ELSE [gen EXCEPT !.i = gen.i + 1, !.mem = q']
    /\ UNCHANGED << queue, ocr, regen, last >>
    /\ HumanUnchanged

\* _call_llm_api raises on a body whose first choice has no message.content
\* (the subscripts are outside its try blocks); the except clause of the task
\* catches the exception and the task ends.
GenRaise ==
    /\ gen.pc = "slots"
    /\ gen' = Idle
    /\ last' = Ended("generate_rewrites", 0, "Error: KeyError")
    /\ UNCHANGED << q, queue, ocr, regen >>
    /\ HumanUnchanged

\* After the loop: status REWRITE_EDITING is committed and the task ends.
GenEnd ==
    /\ gen.pc = "end"
    /\ q' = Flush(gen.mem, [gen.mem EXCEPT !.status = "REWRITE_EDITING"], q)
    /\ gen' = Idle
    /\ last' = Ended("generate_rewrites", 0, "Generated rewrites")
    /\ UNCHANGED << queue, ocr, regen >>
    /\ HumanUnchanged

\* The built-in prompt template: instructions around the three placeholders
\* (each placeholder and each passage of instructions is one symbol).
PromptTemplate ==
    << "Task", "{question}", "Reference", "{answer}", "Rules", "{version}", "Strategies" >>

\* _build_rewrite_prompt: three chained str.replace calls on the template.
build_rewrite_prompt(original_question, original_answer, version_number) ==
    Replace(Replace(Replace(PromptTemplate, 1, << "{question}" >>, original_question),
                    1, << "{answer}" >>, original_answer),
            1, << "{version}" >>, << ToString(version_number) >>)

\* The prompt regenerate_single_rewrite builds for the loaded row; str.replace
\* raises TypeError on a NULL canonical text, and then there is no prompt.
PromptOf(row, index) ==
    IF row.original_question = None \/ row.original_answer = None THEN None
    ELSE Some(build_rewrite_prompt(row.original_question[1], row.original_answer[1], index))

\* regenerate_single_rewrite starts: index check, then the question is loaded
\* and the prompt is built from it.
RegenBegin ==
    /\ regen.pc = "idle"
    /\ \E k \in 1..Len(queue) :
          /\ Pending(k, "regenerate_single_rewrite")
          /\ Dequeue(k)
          /\ IF ~ValidIndex(queue[k][2])
             THEN /\ last' = Ended("regenerate_single_rewrite", queue[k][2],
                                   "Index must be between 1 and 5")
                  /\ UNCHANGED regen
             ELSE /\ regen' = [pc |-> "call", i |-> queue[k][2], mem |-> q,
                                prompt |-> PromptOf(q, queue[k][2])]
                  /\ UNCHANGED last
    /\ UNCHANGED << q, ocr, gen >>
    /\ HumanUnchanged

\* Without a prompt the TypeError is reported; otherwise the LLM is called
\* with the prompt and the outcome is stored or reported.
RegenCall(response) ==
    /\ regen.pc = "call"
    /\ regen' = Idle
    /\ UNCHANGED << queue, ocr, gen >>
    /\ HumanUnchanged
    /\ IF regen.prompt = None
       THEN /\ last' = Ended("regenerate_single_rewrite", regen.i, "Error: TypeError")
            /\ UNCHANGED q
       ELSE IF ~Truthy(response)
       THEN /\ last' = Ended("regenerate_single_rewrite", regen.i, "LLM API call failed")
            /\ UNCHANGED q
       ELSE LET parsed == parse_llm_response(response[1])
                ok == Truthy(parsed.question) /\ Truthy(parsed.answer)
                current ==
                    IF ok
                    THEN update_rewrite_draft(regen.mem, regen.i, parsed.question,
                                              parsed.answer, None)
                    ELSE update_rewrite_draft(regen.mem, regen.i,
                                              Some(RawResponsePrefix \o response[1]),
                                              Some(CopyAnswerManually), None)
            IN /\ q' = Flush(regen.mem, current, q)
               /\ last' = Ended("regenerate_single_rewrite", regen.i,
                                IF ok THEN "Rewrite regenerated successfully"
                                ELSE "LLM returned but parsing failed. Raw response saved for manual review.")

\* The task's except clause: _build_rewrite_prompt raises on a NULL canonical
\* text before any call is made; otherwise _call_llm_api raises, as in GenRaise.
RegenRaise ==
    /\ regen.pc = "call"
    /\ regen' = Idle
    /\ last' = Ended("regenerate_single_rewrite", regen.i,
                     IF regen.prompt = None THEN "Error: TypeError" ELSE "Error: KeyError")
    /\ UNCHANGED << q, queue, ocr, gen >>
    /\ HumanUnchanged

(***************************************************************************)
(* The specification                                                       *)
(***************************************************************************)

\* The values the requests carry.
Indexes == 0..(NumSlots + 1)
DraftInputs == {<< Some(MdQ), Some(MdA) >>, << Some(MdQ), None >>,
                << Some(Rule), Some(MdA) >>, << None, Some(<< >>) >>}
FinalInputs == {<< Some(<< >>), Some(<< >>) >>, << Some(FinQ), Some(FinA) >>}
\* A review: its status and comment, then the final texts.
Reviews(finals) ==
    {<< "APPROVED", None >>, << "CHANGES_REQUESTED", Some(<< "fix" >>) >>} \X finals
Verdicts == (ReviewStatus \X {None}) \X {<< Some(<< >>), Some(<< >>) >>}

\* The requests of the OCR phase and of the administrator.
OcrRequests ==
    \/ TriggerOcr
    \/ \E d \in DraftInputs : UpdateOcrDraft(d[1], d[2])
    \/ SubmitOcrEdit
    \/ \E r \in Reviews(FinalInputs) : SubmitOcrReview(r[1][1], r[1][2], r[2][1], r[2][2])
    \/ \E u \in {OtherUser} : AssignQuestion(None, None, Some(u), None)

\* The requests of the rewrite phase: the editor's on the indexes edited, the
\* reviewer's on the indexes reviewed.
RewriteRequests(edited, drafts, reviewed, reviews) ==
    \/ \E i \in edited, d \in drafts : UpdateRewriteDraft(i, d[1], d[2], None)
    \/ \E i \in edited : SubmitRewriteEdit(i)
    \/ SubmitAllRewriteEdits
    \/ \E i \in reviewed, r \in reviews :
          SubmitRewriteReview(i, r[1][1], r[1][2], r[2][1], r[2][2])

\* The entries a poll may list for a batch of n files: each file running,
\* failed, or done with or without a Markdown document in its bundle.
FileOutcomes == {<< "running", "nourl" >>, << "failed", "nourl" >>,
                 << "done", "md" >>, << "done", "nomd" >>}
ResultList(n, r) == [k \in 1..n |-> FileResult(k, r[k][1], r[k][2])]

\* One status query of the poll loop, its request taking one of the times.
OcrPoll(times) ==
    \/ \E t \in times : OcrPollBatch(1, << >>, t)
    \/ \E n \in 0..MaxImages : \E r \in [1..n -> FileOutcomes] : \E t \in times :
          n <= Len(q.original_images) /\ OcrPollBatch(0, ResultList(n, r), t)
    \/ \E code \in {0, 1}, state \in {"running", "done", "failed", "unknown"} :
          \E r \in {<< >>} \cup {ResultList(1, << o >>) : o \in {<< "done", "md" >>, << "done", "nomd" >>}} :
             \E t \in times : OcrPollSingle(code, state, r, t)
    \/ \E t \in times : OcrPollError(t)

OcrNext(times) ==
    \/ OcrBegin
    \/ \E configured \in BOOLEAN, submitted \in BOOLEAN : OcrSubmit(configured, submitted)
    \/ OcrPoll(times)
    \/ OcrPollTimeout

LlmNext ==
    \/ GenBegin
    \/ \E r \in LlmResponses(IF gen.pc = "slots" THEN gen.i ELSE 0) : GenSlot(r)
    \/ GenRaise
    \/ GenEnd
    \/ RegenBegin
    \/ RegenRaise
    \/ \E r \in LlmResponses(IF regen.pc = "call" THEN regen.i ELSE 0) : RegenCall(r)

\* The times a status query may take: within the client's timeout, or a
\* response that stalls for the whole maximum wait.
Prompt == {0, 1, 30}
Stalled == {max_wait_time}

\* The whole system: every request, on the first slot and on indexes out of
\* range, and every task.
Next ==
    \/ OcrRequests
    \/ RewriteRequests({0, 1, NumSlots + 1}, DraftInputs,
                       {0, 1, NumSlots + 1}, Reviews(FinalInputs))
    \/ \E i \in {0, 1, NumSlots + 1} : RegenerateRewrite(i)
    \/ OcrNext(Stalled)
    \/ LlmNext

Spec == Init /\ [][Next]_vars

\* The OCR phase: its requests and the OCR task.
InitOcr == Created(MaxOcrOps)
NextOcr == OcrRequests \/ OcrNext(Stalled)
SpecOcr == InitOcr /\ [][NextOcr]_vars

\* The OCR task alone, on a question with images and no request handled.
InitPoll == Created(0) /\ q.original_images # << >>
NextPoll == OcrNext(Prompt)
SpecPoll == InitPoll /\ [][NextPoll]_vars
\* The worker runs the task it has taken until the task returns.
FairSpecPoll == SpecPoll /\ WF_vars(NextPoll)

\* The generation of the rewrites: a question with images goes through the
\* OCR phase with the provider not configured, is approved with final text,
\* and its slots are generated and the third regenerated.
InitLlm == Created(MaxLlmOps) /\ Len(q.original_images) = 1
NextLlm ==
    \/ OcrBegin
    \/ OcrSubmit(FALSE, FALSE)
    \/ SubmitOcrEdit
    \/ SubmitOcrReview("APPROVED", None, Some(FinQ), Some(FinA))
    \/ RegenerateRewrite(3)
    \/ LlmNext
SpecLlm == InitLlm /\ [][NextLlm]_vars

\* The way to a question whose canonical text is empty: an OCR draft that is
\* only a horizontal rule is submitted and approved, then slot 1 is regenerated.
MaxCanonicalOps == 4
InitCanonical == Created(MaxCanonicalOps) /\ q.original_images = << >>
NextCanonical ==
    \/ \E d \in {Rule, MdQ} : UpdateOcrDraft(Some(d), Some(MdA))
    \/ SubmitOcrEdit
    \/ SubmitOcrReview("APPROVED", None, None, None)
    \/ RegenerateRewrite(1)
    \/ LlmNext
SpecCanonical == InitCanonical /\ [][NextCanonical]_vars

\* Prompts for canonical text typed by the OCR reviewer: texts of up to
\* MaxPromptText symbols, plain or spelled like a placeholder of the template.
MaxPromptOps == 4
MaxPromptText == 2
PromptTexts ==
    UNION {[1..n -> {"x", "{question}", "{answer}", "{version}"}] : n \in 1..MaxPromptText}
InitPrompt == Created(MaxPromptOps) /\ q.original_images = << >> /\ users = UserRole
NextPrompt ==
    \/ UpdateOcrDraft(Some(MdQ), Some(MdA))
    \/ SubmitOcrEdit
    \/ \E fq \in PromptTexts, fa \in PromptTexts :
          SubmitOcrReview("APPROVED", None, Some(fq), Some(fa))
    \/ \E i \in {1, NumSlots} : RegenerateRewrite(i)
    \/ RegenBegin
    \/ RegenRaise
    \/ \E r \in LlmResponses(IF regen.pc = "call" THEN regen.i ELSE 0) : RegenCall(r)
SpecPrompt == InitPrompt /\ [][NextPrompt]_vars

\* The normalizer at work: the editor types a draft for slot 1 and submits the
\* slot.  The drafts are all texts of up to MaxNormText symbols over a formula
\* delimiter, an emphasis marker, a letter and a space, and the example below.
MaxNormOps == 2
MaxNormText == 4
BoldLabelThenFormula ==
    << "*", "*", "Q", ":", "*", "*", NL,
       "S", "o", "l", "v", "e", " ", "$", "$", "x", "^", "2", "=", "4", "$", "$" >>
NormTexts ==
    UNION {[1..n -> {"$", "*", "a", " "}] : n \in 1..MaxNormText} \cup {BoldLabelThenFormula}
InitNormalize == Created(MaxNormOps) /\ q.original_images = << >>
NextNormalize ==
    \/ \E t \in NormTexts : UpdateRewriteDraft(1, Some(t), Some(MdA), None)
    \/ SubmitRewriteEdit(1)
SpecNormalize == InitNormalize /\ [][NextNormalize]_vars

\* Auto-assignment next to an administrator's assignments: the administrator
\* may give any of the three later roles to another user at any time.
MaxAssignOps == 5
InitAssign == Created(MaxAssignOps) /\ q.original_images = << >>
NextAssign ==
    \/ \E b \in {None, Some(OtherUser)}, c \in {None, Some(OtherUser)}, d \in {None, Some(OtherUser)} :
          << b, c, d >> # << None, None, None >> /\ AssignQuestion(None, b, c, d)
    \/ UpdateOcrDraft(Some(MdQ), Some(MdA))
    \/ SubmitOcrEdit
    \/ \E v \in ReviewStatus : SubmitOcrReview(v, None, None, None)
    \/ UpdateRewriteDraft(1, Some(MdQ), Some(MdA), None)
    \/ SubmitRewriteEdit(1)
    \/ SubmitAllRewriteEdits
SpecAssign == InitAssign /\ [][NextAssign]_vars

\* People at work while generate_rewrites runs: the OCR phase is passed, and
\* the editor submits all slots or the reviewer approves slot 1 between the
\* steps of the task.
MaxOverlapOps == 4
InitOverlap == Created(MaxOverlapOps) /\ q.original_images = << >>
NextOverlap ==
    \/ UpdateOcrDraft(Some(MdQ), Some(MdA))
    \/ SubmitOcrEdit
    \/ SubmitOcrReview("APPROVED", None, None, None)
    \/ SubmitAllRewriteEdits
    \/ SubmitRewriteReview(1, "APPROVED", None, None, None)
    \/ GenBegin
    \/ \E r \in {None, Some(WellFormedResponse(0))} : GenSlot(r)
    \/ GenEnd
SpecOverlap == InitOverlap /\ [][NextOverlap]_vars

\* A regeneration that is enqueued during the rewrite phase and may run late:
\* the OCR phase is passed, slot 1 is sent for regeneration, and the reviewer
\* approves the slots, in their order, while the task waits in the queue.
MaxLateOps == 9
InitLate == Created(MaxLateOps) /\ q.original_images = << >> /\ users = UserRole
NextLate ==
    \/ UpdateOcrDraft(Some(MdQ), Some(MdA))
    \/ SubmitOcrEdit
    \/ SubmitOcrReview("APPROVED", None, None, None)
    \/ RegenerateRewrite(1)
    \/ \E i \in Slots :
          /\ \A j \in Slots : (q.slot[j].review_status = "APPROVED") = (j < i)
          /\ SubmitRewriteReview(i, "APPROVED", None, None, None)
    \/ RegenBegin
    \/ RegenRaise
    \/ \E r \in {None, Some(WellFormedResponse(1))} : RegenCall(r)
SpecLate == InitLate /\ [][NextLate]_vars

\* From the approval of the OCR text to the generated rewrites: the worker
\* takes every enqueued task and runs it until it returns; what the provider
\* answers is not in the worker's hands.
MaxApprovalOps == 3
InitApproval == Created(MaxApprovalOps) /\ q.original_images = << >>
GenStep ==
    \/ GenBegin
    \/ \E r \in {None, Some(WellFormedResponse(0))} : GenSlot(r)
    \/ GenRaise
    \/ GenEnd
NextApproval ==
    \/ UpdateOcrDraft(Some(MdQ), Some(MdA))
    \/ SubmitOcrEdit
    \/ SubmitOcrReview("APPROVED", None, None, None)
    \/ GenStep
SpecApproval == InitApproval /\ [][NextApproval]_vars
FairSpecApproval == SpecApproval /\ WF_vars(GenStep)

\* Two reviews at a time: the reviewer approves slots and asks for changes
\* to slot 1, a second request arriving while the first is being handled.
MaxHandlers == 2
MaxReviewRaceOps == 6
InitReviewRace == Created(MaxReviewRaceOps) /\ q.original_images = << >> /\ users = UserRole
NextReviewRace ==
    \/ \E i \in Slots : Len(handlers) < MaxHandlers /\ ReviewLoad(i, "APPROVED")
    \/ Len(handlers) < MaxHandlers /\ ReviewLoad(1, "CHANGES_REQUESTED")
    \/ \E k \in 1..MaxHandlers : HandlerCommit(k)
SpecReviewRace == InitReviewRace /\ [][NextReviewRace]_vars

\* Two single-slot submits at a time, of slots 1 and 2, after their drafts
\* were saved.
MaxSubmitRaceOps == 4
InitSubmitRace == Created(MaxSubmitRaceOps) /\ q.original_images = << >>
NextSubmitRace ==
    \/ \E i \in {1, 2} : UpdateRewriteDraft(i, Some(MdQ), Some(MdA), None)
    \/ \E i \in {1, 2} : Len(handlers) < MaxHandlers /\ SubmitLoad(i)
    \/ \E k \in 1..MaxHandlers : HandlerCommit(k)
SpecSubmitRace == InitSubmitRace /\ [][NextSubmitRace]_vars

\* The rewrite phase of a question without images: the editor works on the
\* first slot, the reviewer on every slot; no task runs.
InitRewrite == Created(MaxRewriteOps) /\ q.original_images = << >>
NextRewrite == RewriteRequests({1}, {<< Some(MdQ), Some(MdA) >>}, Indexes, Verdicts)
SpecRewrite == InitRewrite /\ [][NextRewrite]_vars

(***************************************************************************)
(* Properties                                                              *)
(***************************************************************************)

\* This step handles the request op (the clock advances with every request).
Handles(op) == now' = now + 1 /\ last'.op = op

\* Number of slots whose two final fields are both non-empty.
CompletedPairs(row) ==
    Cardinality({i \in 1..5 : /\ row.slot[i].question # None
                              /\ row.slot[i].question[1] # << >>
                              /\ row.slot[i].answer # None
                              /\ row.slot[i].answer[1] # << >>})

\* C1: after every accepted per-slot review the status is REWRITE_EDITING if
\* any slot is CHANGES_REQUESTED, else DONE if all five slots are APPROVED,
\* else REWRITE_REVIEWING.
C1_ReviewDecidesStatus ==
    [][(Handles("submit_rewrite_review") /\ last'.result = "ok") =>
          /\ last'.index \in 1..5
          /\ q'.status =
                IF \E i \in 1..5 : q'.slot[i].review_status = "CHANGES_REQUESTED"
                THEN "REWRITE_EDITING"
                ELSE IF \A i \in 1..5 : q'.slot[i].review_status = "APPROVED"
                THEN "DONE"
                ELSE "REWRITE_REVIEWING"]_vars

\* A review has just approved the last of the five slots.
C1_LastSlotApproved ==
    /\ last.op = "submit_rewrite_review" /\ last.result = "ok"
    /\ \A i \in 1..5 : q.slot[i].review_status = "APPROVED"
    /\ q.status = "DONE"

\* C2: DONE is terminal: once the status is DONE no step changes it.
C2_DoneIsTerminal == [][q.status = "DONE" => q'.status = "DONE"]_vars

\* C3: an OCR review with APPROVED, accepted in OCR_REVIEWING while a user of
\* role rewrite_editor exists, leaves status REWRITE_EDITING, ocr_progress 100
\* and ocr_completed_at set, whether or not a rewrite editor was assigned.
C3_ApprovalOpensRewriteEditing ==
    [][(/\ Handles("submit_ocr_review") /\ last'.result = "ok"
        /\ q.status = "OCR_REVIEWING"
        /\ q'.original_review_status = "APPROVED"
        /\ "rewrite_editor" \in users) =>
          /\ q'.status = "REWRITE_EDITING"
          /\ q'.ocr_progress = 100
          /\ q'.ocr_completed_at # None]_vars

\* C4: in every reachable state rewrite_progress = min(20 * n, 100), n the
\* number of slots whose two final fields are both non-empty.
C4_ProgressCountsPairs ==
    q.rewrite_progress = (IF 20 * CompletedPairs(q) < 100 THEN 20 * CompletedPairs(q) ELSE 100)

\* C5: a completion timestamp, once set, is never changed.
C5_TimestampsWrittenOnce ==
    [][/\ q.ocr_completed_at # None => q'.ocr_completed_at = q.ocr_completed_at
       /\ q.rewrite_completed_at # None => q'.rewrite_completed_at = q.rewrite_completed_at]_vars

\* C6: every reachable state with status DONE has rewrite_progress 100 and
\* rewrite_completed_at set.
C6_DoneIsComplete ==
    q.status = "DONE" => q.rewrite_progress = 100 /\ q.rewrite_completed_at # None

\* C7: a slot-indexed request (rewrite draft update, single-slot submit,
\* per-slot review, regenerate) with an index outside 1..5 is rejected; the
\* record is unchanged and nothing is enqueued.
C7_IndexOutOfRangeRejected ==
    [][(/\ now' = now + 1
        /\ last'.op \in {"update_rewrite_draft", "submit_rewrite_edit",
                         "submit_rewrite_review", "regenerate_rewrite"}
        /\ last'.index \notin 1..5) =>
          last'.result = "400" /\ q' = q /\ queue' = queue]_vars

\* A regenerate request on index 6 was rejected although the status allows
\* regeneration.
C7_RegenerateSixRejected ==
    /\ last.op = "regenerate_rewrite" /\ last.index = 6 /\ last.result = "400"
    /\ q.status \in {"REWRITE_EDITING", "REWRITE_REVIEWING"}

\* The draft d is missing or empty.
Blank(d) == d = None \/ d[1] = << >>

\* C8: a submission whose required draft content is empty is rejected and
\* changes nothing: the OCR submit when a draft is empty, the single-slot
\* submit when a draft of the slot is empty, submit-all when no slot has both
\* drafts non-empty.
C8_EmptySubmissionRejected ==
    [][(\/ /\ Handles("submit_ocr_edit")
           /\ Blank(q.draft_original_question) \/ Blank(q.draft_original_answer)
        \/ /\ Handles("submit_rewrite_edit") /\ last'.index \in 1..5
           /\ \/ Blank(q.slot[last'.index].draft_question)
              \/ Blank(q.slot[last'.index].draft_answer)
        \/ /\ Handles("submit_all_rewrite_edits")
           /\ \A i \in 1..5 : Blank(q.slot[i].draft_question) \/ Blank(q.slot[i].draft_answer)) =>
          last'.result = "400" /\ q' = q /\ queue' = queue]_vars

\* An OCR submit was rejected with the draft question present and the draft
\* answer empty.
C8_HalfDraftRejected ==
    /\ last.op = "submit_ocr_edit" /\ last.result = "400"
    /\ ~Blank(q.draft_original_question) /\ Blank(q.draft_original_answer)

\* The raw and draft OCR fields.
OcrFields(row) ==
    << row.ocr_raw_question, row.ocr_raw_answer,
       row.draft_original_question, row.draft_original_answer >>

\* C9: OCR is all-or-nothing: when the provider reports a failed file or a
\* bundle yields no text document the run fails and writes no raw or draft
\* field; a run that polled the provider writes them only when the document
\* of every file was extracted.
C9_OcrAllOrNothing ==
    [][(ocr.pc = "polling" /\ ocr'.pc = "idle") =>
          /\ (\E k \in 1..Len(last'.resp) :
                 last'.resp[k].state = "failed" \/ last'.resp[k].bundle # "md") =>
                /\ last'.result # "OCR processing completed successfully"
                /\ OcrFields(q') = OcrFields(q)
          /\ (\/ OcrFields(q') # OcrFields(q)
              \/ last'.result = "OCR processing completed successfully") =>
                /\ last'.resp # << >>
                /\ \A k \in 1..Len(last'.resp) :
                      last'.resp[k].state = "done" /\ last'.resp[k].bundle = "md"
                /\ q'.ocr_raw_question =
                      Some(JoinWith([k \in 1..Len(last'.resp) |-> Doc(last'.resp[k].file)],
                                    Separator))]_vars

\* A run ended on two finished files, the second without a text document,
\* and the raw and draft fields are still unset.
C9_SecondBundleUnreadable ==
    /\ last.op = "process_mineru_ocr" /\ Len(last.resp) = 2
    /\ last.resp[1].state = "done" /\ last.resp[1].bundle = "md"
    /\ last.resp[2].state = "done" /\ last.resp[2].bundle = "nomd"
    /\ OcrFields(q) = << None, None, None, None >>

\* C10: a processOcr run that ends in failure, with no request handled since
\* it started, leaves the question as it was before the run, status included.
C10_FailedRunRestoresQuestion ==
    [][(/\ ocr.pc # "idle" /\ ocr'.pc = "idle"
        /\ last'.result \notin {"OCR processing completed successfully",
                                "Placeholder created (MinerU not configured)"}
        /\ ocr.t0 = now) =>
          q' = ocr.pre]_vars

\* C11: a run whose poll loop exceeds the maximum wait reports a result that
\* differs from the result reported when a file is in the failed state.
C11_TimeoutReportedApart ==
    [][OcrPollTimeout => last'.result # PollFailure("failed")]_vars

\* C12: a failed submission and a failed status query both end the run in
\* failure; after a failed status query the loop does not go on polling.
C12_NetworkErrorEndsRun ==
    [][(OcrSubmit(TRUE, FALSE) \/ \E t \in Prompt : OcrPollError(t))
          => /\ ocr'.pc = "idle"
             /\ last'.op = "process_mineru_ocr"
             /\ last'.result \notin OcrSuccess]_vars

\* C13: the poll loop ends; between two status queries the fixed interval
\* passes; no status query is issued once the maximum wait is exceeded.
C13_PollLoopBounded ==
    /\ (ocr.pc = "polling") ~> (ocr.pc = "idle")
    /\ [][(ocr.pc = "polling" /\ ocr'.pc = "polling" /\ ocr' # ocr)
             => ocr'.elapsed >= ocr.elapsed + poll_interval]_vars
    /\ [][OcrPoll(Prompt) => ocr.elapsed <= max_wait_time]_vars

\* The loop has polled until the maximum wait was exceeded.
C13_MaximumWaitExceeded ==
    ocr.pc = "polling" /\ ocr.elapsed > max_wait_time

\* The response has no question section or no answer section with text.
Unparseable(response) ==
    LET parsed == parse_llm_response(response)
    IN ~(Truthy(parsed.question) /\ Truthy(parsed.answer))

\* The column holds the response after a prefix.
RawKept(column, response) ==
    /\ Truthy(column)
    /\ Len(column[1]) > Len(response)
    /\ SubSeq(column[1], Len(column[1]) - Len(response) + 1, Len(column[1])) = response

\* C14: a run of generate_rewrites that passed its precondition, with no
\* request handled meanwhile, ends with a draft question in all five slots.
C14_NoEmptySlotAfterGeneration ==
    [][(gen.pc # "idle" /\ gen'.pc = "idle" /\ gen.t0 = now)
          => \A i \in Slots : Truthy(q'.slot[i].draft_question)]_vars

\* C15: when the response of the LLM cannot be parsed, generate_rewrites and
\* regenerate_single_rewrite both store the raw response, after a prefix, as
\* the draft question of the slot.
C15_RawResponseKept ==
    [][/\ gen.pc = "slots" =>
            \A r \in LlmResponses(gen.i) \ {None} :
               (Unparseable(r[1]) /\ GenSlot(r))
                  => RawKept(q'.slot[gen.i].draft_question, r[1])
       /\ regen.pc = "call" =>
            \A r \in LlmResponses(regen.i) \ {None} :
               (Unparseable(r[1]) /\ RegenCall(r) /\ ~OriginalMissing(regen.mem))
                  => RawKept(q'.slot[regen.i].draft_question, r[1])]_vars

\* C16: when the LLM call fails, generate_rewrites and
\* regenerate_single_rewrite both leave the failure placeholder in the draft
\* question and the draft answer of the slot.
C16_FailedCallLeavesPlaceholder ==
    [][/\ (gen.pc = "slots" /\ GenSlot(None))
            => /\ q'.slot[gen.i].draft_question = Some(ApiFailedPlaceholder)
               /\ q'.slot[gen.i].draft_answer = Some(ApiFailedPlaceholder)
       /\ (regen.pc = "call" /\ RegenCall(None) /\ ~OriginalMissing(regen.mem))
            => /\ q'.slot[regen.i].draft_question = Some(ApiFailedPlaceholder)
               /\ q'.slot[regen.i].draft_answer = Some(ApiFailedPlaceholder)]_vars

\* C20: the step in which regenerate_single_rewrite ends, whatever the
\* outcome of the LLM call, changes no column of the other four slots.
C20_RegenerateTouchesOneSlot ==
    [][(regen.pc = "call" /\ regen'.pc = "idle")
          => \A j \in Slots \ {regen.i} : q'.slot[j] = q.slot[j]]_vars

\* A slot was regenerated while the other slots held generated drafts.
C20_ThirdSlotRegenerated ==
    /\ last.op = "regenerate_single_rewrite"
    /\ last.result = "Rewrite regenerated successfully"
    /\ q.slot[3].draft_question = Some(<< "G", "3" >>)
    /\ \A j \in Slots \ {3} : Truthy(q.slot[j].draft_question)

\* C17: once a run of process_mineru_ocr has set the raw OCR columns, no
\* step changes them.
C17_RawFieldsWrittenOnce ==
    [][/\ q.ocr_raw_question # None => q'.ocr_raw_question = q.ocr_raw_question
       /\ q.ocr_raw_answer # None => q'.ocr_raw_answer = q.ocr_raw_answer]_vars

\* C18: a run that ends with the provider's documents saved leaves the draft
\* answer and the raw answer without text.
C18_AnswerLeftEmpty ==
    [][(/\ ocr.pc = "polling" /\ ocr'.pc = "idle"
        /\ last'.result = "OCR processing completed successfully")
          => /\ ~Truthy(q'.draft_original_answer)
             /\ ~Truthy(q'.ocr_raw_answer)]_vars

\* C19: without a provider configuration the run, no request being handled
\* meanwhile, ends at the configuration check, before any submission or
\* status query: the drafts hold the placeholders, the status is OCR_EDITING
\* and the result is a success.
C19_DegradedModeSucceeds ==
    [][((\E submitted \in BOOLEAN : OcrSubmit(FALSE, submitted)) /\ ocr.t0 = now)
          => /\ ocr'.pc = "idle"
             /\ q'.draft_original_question = Some(PlaceholderQuestion)
             /\ q'.draft_original_answer = Some(PlaceholderAnswer)
             /\ q'.status = "OCR_EDITING"
             /\ last'.op = "process_mineru_ocr"
             /\ last'.result \in OcrSuccess]_vars

\* A run without configuration has ended on a question that was in review.
C19_PlaceholderAfterReview ==
    /\ last.op = "process_mineru_ocr"
    /\ last.result = "Placeholder created (MinerU not configured)"
    /\ q.original_review_status # "PENDING"
    /\ q.status = "OCR_EDITING"

\* C22: while generate_rewrites is in its loop, no request being handled
\* meanwhile, the status is REWRITE_GENERATING.
C22_GeneratingWhileRunning ==
    (gen.pc = "slots" /\ gen.t0 = now) => q.status = "REWRITE_GENERATING"

\* C23: no step takes the status from the rewrite phase or DONE back to a
\* status of the OCR phase.
C23_PipelineIsLinear ==
    [][q.status \in {"REWRITE_GENERATING", "REWRITE_EDITING", "REWRITE_REVIEWING", "DONE"}
          => q'.status \notin {"NEW", "OCR_EDITING", "OCR_REVIEWING", "OCR_APPROVED"}]_vars

\* C30: a run that saves the provider's documents stores one document per
\* image of the question, in the order of the images, joined by the separator.
C30_OneDocumentPerImage ==
    [][(/\ ocr.pc = "polling" /\ ocr'.pc = "idle"
        /\ last'.result = "OCR processing completed successfully")
          => q'.ocr_raw_question =
                Some(JoinWith([k \in 1..Len(ocr.mem.original_images) |-> Doc(k)],
                              Separator))]_vars


\* C28: after an accepted submit-all every slot's review status is PENDING,
\* the status is REWRITE_REVIEWING, rewrite_progress is min(20 * n, 100) for
\* the n slots with both final fields non-empty, and a rewrite reviewer who
\* was already assigned is still the reviewer.
C28_SubmitAllResetsReview ==
    [][(Handles("submit_all_rewrite_edits") /\ last'.result = "ok") =>
          /\ \A i \in 1..5 : q'.slot[i].review_status = "PENDING"
          /\ q'.status = "REWRITE_REVIEWING"
          /\ q'.rewrite_progress =
                (IF 20 * CompletedPairs(q') < 100 THEN 20 * CompletedPairs(q') ELSE 100)
          /\ q.rewrite_reviewer_id # 0 => q'.rewrite_reviewer_id = q.rewrite_reviewer_id]_vars

\* Submit-all was accepted on a question that had been DONE (all five slots
\* approved before): the slots are PENDING again.
C28_SubmitAllAfterDone ==
    /\ last.op = "submit_all_rewrite_edits" /\ last.result = "ok"
    /\ q.rewrite_completed_at # << >>
    /\ q.status = "REWRITE_REVIEWING"

\* C29: an accepted single-slot submit sets the status to REWRITE_REVIEWING
\* exactly when no rewrite reviewer is assigned and a user of that role
\* exists, and leaves it unchanged otherwise; the slot's final texts are the
\* normalized drafts and rewrite_progress is recomputed.
C29_SlotSubmitOpensReviewOnce ==
    [][(Handles("submit_rewrite_edit") /\ last'.result = "ok") =>
          /\ q'.status = IF q.rewrite_reviewer_id = 0 /\ "rewrite_reviewer" \in users
                         THEN "REWRITE_REVIEWING" ELSE q.status
          /\ q'.slot[last'.index].question =
                << markdown_to_required_format(q.slot[last'.index].draft_question[1]) >>
          /\ q'.slot[last'.index].answer =
                << markdown_to_required_format(q.slot[last'.index].draft_answer[1]) >>
          /\ q'.rewrite_progress =
                (IF 20 * CompletedPairs(q') < 100 THEN 20 * CompletedPairs(q') ELSE 100)]_vars

\* A slot was submitted while a reviewer was already assigned and the
\* question was back in REWRITE_EDITING: the status did not move.
C29_ResubmittedSlot ==
    /\ last.op = "submit_rewrite_edit" /\ last.result = "ok"
    /\ q.rewrite_reviewer_id # 0
    /\ q.status = "REWRITE_EDITING"


\* The results of regenerate_single_rewrite that follow a call of the LLM.
AfterLlmCall ==
    {"Rewrite regenerated successfully", "LLM API call failed", "Error: KeyError",
     "LLM returned but parsing failed. Raw response saved for manual review."}

\* C21: a generation task that finds the canonical question or answer empty
\* (NULL or the empty string) fails at once: generate_rewrites never enters
\* its loop, regenerate_single_rewrite ends without a call of the LLM, and
\* neither changes the question.
C21_EmptyCanonicalTextFails ==
    [][/\ (gen.pc = "idle" /\ gen'.pc # "idle")
            => ~Blank(q.original_question) /\ ~Blank(q.original_answer)
       /\ (/\ regen.pc = "call" /\ regen'.pc = "idle"
           /\ (Blank(regen.mem.original_question) \/ Blank(regen.mem.original_answer)))
            => q' = q /\ last'.result \notin AfterLlmCall]_vars


\* The template t from position i on, each placeholder replaced by its value
\* in one pass, the values themselves left as they are.
RECURSIVE Filled(_, _, _, _, _)
Filled(t, i, question, answer, version) ==
    IF i > Len(t) THEN << >>
    ELSE (CASE t[i] = "{question}" -> question
            [] t[i] = "{answer}" -> answer
            [] t[i] = "{version}" -> << version >>
            [] OTHER -> << t[i] >>) \o Filled(t, i + 1, question, answer, version)

\* C24: the prompt is the template with its three placeholders replaced by
\* the canonical question, the canonical answer and the version index, the
\* inserted texts appearing verbatim even when they contain a placeholder.
C24_PromptIsLiteralSubstitution ==
    (regen.pc = "call" /\ regen.prompt # << >>) =>
        regen.prompt[1] = Filled(PromptTemplate, 1, regen.mem.original_question[1],
                                 regen.mem.original_answer[1], ToString(regen.i))


\* The sequence part occurs in the sequence whole.
Occurs(part, whole) ==
    \E i \in 1..(Len(whole) - Len(part) + 1) : SubSeq(whole, i, i + Len(part) - 1) = part

\* s[i..j] is a formula between delimiters of n dollar signs: a non-empty body
\* without dollar signs, and no dollar sign next to the delimiters.
FormulaAt(s, i, j, n) ==
    /\ j - i + 1 > 2 * n
    /\ \A k \in i..j : (s[k] = "$") = (k < i + n \/ k > j - n)
    /\ i > 1 => s[i - 1] # "$"
    /\ j < Len(s) => s[j + 1] # "$"

\* Every block formula and inline formula of the text s occurs in t.
FormulasOccur(s, t) ==
    \A i \in 1..Len(s), j \in 1..Len(s), n \in {1, 2} :
        FormulaAt(s, i, j, n) => Occurs(SubSeq(s, i, j), t)

\* The single-slot submit has just normalized the draft of slot 1.
SlotNormalized == last.op = "submit_rewrite_edit" /\ last.result = "ok"

\* C25: every block formula and inline formula of the normalized draft
\* occurs in the final text unchanged, delimiters included.
C25_FormulasKept ==
    SlotNormalized =>
        FormulasOccur(q.slot[1].draft_question[1], q.slot[1].question[1])

\* C26: the draft "**Q:**", a line break, "Solve $$x^2=4$$" is normalized to
\* exactly "Q:Solve $$x^2=4$$".
C26_BoldLabelExample ==
    (SlotNormalized /\ q.slot[1].draft_question = << BoldLabelThenFormula >>) =>
        q.slot[1].question =
            << << "Q", ":", "S", "o", "l", "v", "e", " ", "$", "$", "x", "^", "2", "=", "4", "$", "$" >> >>

\* Text without markup or line breaks, its spaces single and inside the text.
AlreadyNormalized(s) ==
    /\ \A k \in 1..Len(s) : s[k] \in {"a", " ", "$"}
    /\ s[1] # " " /\ s[Len(s)] # " "
    /\ \A k \in 1..(Len(s) - 1) : ~(s[k] = " " /\ s[k + 1] = " ")

\* C27: normalizing a text that is already normalized, formulas included,
\* returns it unchanged.
C27_NormalizedTextUnchanged ==
    (SlotNormalized /\ AlreadyNormalized(q.slot[1].draft_question[1])) =>
        q.slot[1].question = q.slot[1].draft_question


\* C36: every reachable state with status DONE has ocr_progress 100 and
\* ocr_completed_at set: a question is DONE only after its OCR was approved.
C36_DoneAfterOcrApproval ==
    q.status = "DONE" => q.ocr_progress = 100 /\ q.ocr_completed_at # << >>


\* The four assignee references of a row, by role.
Assignee(row, role) ==
    CASE role = "ocr_editor" -> row.ocr_editor_id
      [] role = "ocr_reviewer" -> row.ocr_reviewer_id
      [] role = "rewrite_editor" -> row.rewrite_editor_id
      [] role = "rewrite_reviewer" -> row.rewrite_reviewer_id

\* The role an operation assigns automatically.
AutoAssigned(op) ==
    CASE op = "submit_ocr_edit" -> "ocr_reviewer"
      [] op = "submit_ocr_review" -> "rewrite_editor"
      [] OTHER -> "rewrite_reviewer"

\* C39: an accepted OCR submit, OCR review, single-slot submit or submit-all
\* changes no assignee reference other than the one of the role it assigns,
\* changes that one only when it is unassigned and a user of the role
\* exists, and then sets it to the first user of the role.
C39_AssigneesNeverReplaced ==
    [][(/\ last'.result = "ok" /\ now' = now + 1
        /\ last'.op \in {"submit_ocr_edit", "submit_ocr_review",
                         "submit_rewrite_edit", "submit_all_rewrite_edits"}) =>
          \A role \in {"ocr_editor", "ocr_reviewer", "rewrite_editor", "rewrite_reviewer"} :
             \/ Assignee(q', role) = Assignee(q, role)
             \/ /\ role = AutoAssigned(last'.op)
                /\ Assignee(q, role) = 0
                /\ role \in users
                /\ Assignee(q', role) = FirstUser(role)]_vars

\* Submit-all was accepted on a question whose rewrite reviewer had been
\* chosen by the administrator: that reviewer is still assigned.
C39_AdministratorsReviewerKept ==
    /\ last.op = "submit_all_rewrite_edits" /\ last.result = "ok"
    /\ q.rewrite_reviewer_id = OtherUser
    /\ "rewrite_reviewer" \in users


\* C33: once generate_rewrites is in or past its loop, a step of the task
\* changes the status only from REWRITE_GENERATING to REWRITE_EDITING; a
\* status that a request committed meanwhile is not overwritten.
C33_GeneratorKeepsHumanStatus ==
    [][(gen.pc \in {"slots", "end"} /\ gen' # gen /\ q'.status # q.status) =>
          q.status = "REWRITE_GENERATING" /\ q'.status = "REWRITE_EDITING"]_vars


\* C34: when regenerate_single_rewrite ends while the status is neither
\* REWRITE_EDITING nor REWRITE_REVIEWING, it has written nothing.
C34_LateRegenerationWritesNothing ==
    [][(/\ regen.pc = "call" /\ regen'.pc = "idle"
        /\ q.status \notin {"REWRITE_EDITING", "REWRITE_REVIEWING"}) => q' = q]_vars


\* C35: after the editor has saved the OCR draft (the last operation that
\* ended is update_ocr_draft) or the question has reached OCR_REVIEWING or a
\* later status, no step of process_mineru_ocr changes the two drafts or the
\* status.
C35_OcrKeepsHumanWork ==
    [][(/\ ocr' # ocr
        /\ \/ last.op = "update_ocr_draft" /\ last.result = "ok"
           \/ q.status \in {"OCR_REVIEWING", "OCR_APPROVED", "REWRITE_GENERATING",
                             "REWRITE_EDITING", "REWRITE_REVIEWING", "DONE"}) =>
          /\ q'.draft_original_question = q.draft_original_question
          /\ q'.draft_original_answer = q.draft_original_answer
          /\ q'.status = q.status]_vars


\* C37: an accepted OCR review with verdict APPROVED leads to status
\* REWRITE_EDITING, the enqueued generate_rewrites being run by the worker
\* and no further request being needed.
C37_ApprovalLeadsToEditing ==
    (/\ last.op = "submit_ocr_review" /\ last.result = "ok"
     /\ q.original_review_status = "APPROVED") ~> (q.status = "REWRITE_EDITING")


\* A response to the status query of a single task says that the file is
\* done and does not say that its bundle lacks a document: the state of the
\* response is done, or the response lists the file as done with a document.
ReportsDone(state, extract_result) ==
    \/ state = "done" /\ extract_result \in {<< >>, ResultList(1, << << "done", "md" >> >>)}
    \/ extract_result = ResultList(1, << << "done", "md" >> >>)

\* C38: for a question with one image, a status query answered with code 0
\* and the file reported done ends the run with success, the document of the
\* image stored in the raw and the draft question.
C38_SingleImageSucceeds ==
    [][\A state \in {"running", "done", "failed", "unknown"} :
         \A r \in {<< >>, ResultList(1, << << "done", "md" >> >>)} : \A t \in Prompt :
            (OcrPollSingle(0, state, r, t) /\ ReportsDone(state, r)) =>
                /\ ocr'.pc = "idle"
                /\ last'.result = "OCR processing completed successfully"
                /\ q'.ocr_raw_question = << Doc(1) >>
                /\ q'.draft_original_question = << Doc(1) >>]_vars


\* C31: with review requests handled at the same time, every reachable state
\* with status DONE has the five review statuses APPROVED.
C31_DoneMeansAllApproved ==
    q.status = "DONE" => \A i \in 1..5 : q.slot[i].review_status = "APPROVED"

\* C32: with single-slot submits handled at the same time, once every
\* request has committed rewrite_progress is 20 times the number of slots
\* whose two final fields are non-empty.
C32_NoProgressUpdateLost ==
    (handlers = << >> /\ last.op = "submit_rewrite_edit" /\ last.result = "ok") =>
        q.rewrite_progress = 20 * CompletedPairs(q)

====
